---------------------------- MODULE Spec2Model ----------------------------
(***************************************************************************)
(* Model of the two flowsheet scripts of proteuslib's full treatment train *)
(*   example_flowsheets/costing.py       build_costing, display_costing    *)
(*   example_flowsheets/pretreatment.py  build_pretreatment_NF and its     *)
(*                                       driver solve_build_pretreatment_NF*)
(* Each function is a straight-line sequence of statements; the model has  *)
(* one action per statement (or block of statements) and a program counter *)
(* per function, so that the order of the calls into the modelling         *)
(* framework is observable.  Calls into the framework are recorded in a    *)
(* log; their own effect is limited to what the two scripts read back.     *)
(***************************************************************************)
EXTENDS Integers, Sequences, FiniteSets, TLC

(***************************************************************************)
(* Bounds of the model.                                                    *)
(***************************************************************************)
\* operating costs computed by a unit's costing routine range over 1..MaxCost
MaxCost == 2
\* number of display_costing calls made after build_costing
MaxDisplay == 2

(***************************************************************************)
(* costing.py: names and inputs.                                           *)
(***************************************************************************)
\* the reserved attribute names build_costing looks for, in the order tested
Reserved ==
    << "NF", "RO", "pump_RO", "pump_RO2", "RO2",
       "stoich_softening_mixer_unit", "ideal_naocl_mixer_unit" >>

ReservedNames == { Reserved[i] : i \in 1..Len(Reserved) }

\* a keyword that the caller did not pass: kwargs[...] raises KeyError
Absent == "<absent>"

\* values the caller may pass as NF_type / RO_type
TypeValues == { "ZO", "0D", "Sep", "1D", Absent }

\* the two scripts
Scripts == { "costing", "pretreatment" }

\* costing modules the caller may pass as `module`
Modules == { "financials", "other_module" }

NoArg == "none"

VARIABLES
    \* ---- costing.py ----
    fs,              \* reserved names attached to m.fs (hasattr(m.fs, name))
    placeholder,     \* names attached by display_costing as plain Block()
    costing,         \* unit |-> costing.operating_cost, for units with a costing block
    system_costing,  \* number of module.get_system_costing(m.fs) calls so far
    calls,           \* log of the costing calls, in the order made
    kwargs,          \* [NF_type, RO_type] of the running build_costing
    module,          \* module argument of the running build_costing
    pc,              \* position in build_costing / display_costing
    err,             \* exception that ended the run, "none" if none
    printed,         \* lines printed by the current display_costing call
    ndisplay,        \* display_costing calls made
    \* ---- pretreatment.py ----
    ppc,             \* position in build_pretreatment_NF / its driver
    args,            \* [has_bypass, NF_type, NF_base, entry]
    units,           \* unit |-> variant, for the units built on m.fs
    arcs,            \* Arc declarations, in order: [name, src, dst]
    split_fraction,  \* splitter.split_fraction[0,'bypass']: [fixed, tenths]
    scaled,          \* units passed to calculate_scaling_factors
    events,          \* log of initialize / propagate_state calls, in order
    pretrt_port,     \* the dict returned by build_pretreatment_NF
    perr,            \* exception that ended the run, "none" if none
    solved,          \* the driver's solve has been run
    script           \* which of the two scripts this run executes

cvars == << fs, placeholder, costing, system_costing, calls, kwargs, module,
            pc, err, printed, ndisplay >>
pvars == << ppc, args, units, arcs, split_fraction, scaled, events,
            pretrt_port, perr, solved >>
vars == << cvars, pvars, script >>

(***************************************************************************)
(* costing.py: build_costing                                               *)
(***************************************************************************)
hasattr(name) == name \in fs

\* unit.get_costing(module=module, ...): the unit gets a costing block whose
\* operating cost the framework computes; the call is logged with its arguments.
get_costing(u, mod, arg) ==
    /\ \E c \in 1..MaxCost : costing' = (u :> c) @@ costing
    /\ calls' = Append(calls, [fn |-> "get_costing", unit |-> u,
                               module |-> mod, arg |-> arg])

\* raise: the run ends with the exception
raise(e) ==
    /\ pc' = "error"
    /\ err' = e

\* def build_costing(m, module=financials, **kwargs)
build_costing(mod, nf, ro) ==
    /\ script = "costing"
    /\ pc = "start"
    /\ pc' = "NF"
    /\ module' = mod
    /\ kwargs' = [NF_type |-> nf, RO_type |-> ro]
    /\ UNCHANGED << fs, placeholder, costing, system_costing, calls, err,
                    printed, ndisplay >>
    /\ UNCHANGED << pvars, script >>

\* the variant for which NF has a costing routine
NF_costed_type == "ZO"

\* the variant for which RO has a costing routine
RO_costed_type == "0D"

\* if hasattr(m.fs, 'NF'): ZO -> get_costing, Sep -> raise, anything else falls through
costing_NF ==
    /\ pc = "NF"
    /\ IF ~hasattr("NF")
         THEN /\ pc' = "RO"
              /\ UNCHANGED << costing, calls, err >>
       ELSE IF kwargs.NF_type = Absent
         THEN /\ raise("KeyError")
              /\ UNCHANGED << costing, calls >>
       ELSE IF kwargs.NF_type = NF_costed_type
         THEN /\ get_costing("NF", module, NoArg)
              /\ pc' = "RO"
              /\ UNCHANGED err
       ELSE IF kwargs.NF_type = "Sep"
         THEN /\ raise("NotImplementedError")
              /\ UNCHANGED << costing, calls >>
       ELSE /\ pc' = "RO"
            /\ UNCHANGED << costing, calls, err >>
    /\ UNCHANGED << fs, placeholder, system_costing, kwargs, module, printed,
                    ndisplay >>
    /\ UNCHANGED << pvars, script >>

\* as costing_RO, without the elif that raises for 'Sep'
costing_RO_no_raise ==
    /\ pc = "RO"
    /\ IF ~hasattr("RO")
         THEN /\ pc' = "pump_RO"
              /\ UNCHANGED << costing, calls, err >>
       ELSE IF kwargs.RO_type = Absent
         THEN /\ raise("KeyError")
              /\ UNCHANGED << costing, calls >>
       ELSE IF kwargs.RO_type = RO_costed_type
         THEN /\ get_costing("RO", module, NoArg)
              /\ pc' = "pump_RO"
              /\ UNCHANGED err
       ELSE /\ pc' = "pump_RO"
            /\ UNCHANGED << costing, calls, err >>
    /\ UNCHANGED << fs, placeholder, system_costing, kwargs, module, printed,
                    ndisplay >>
    /\ UNCHANGED << pvars, script >>

\* if hasattr(m.fs, 'RO'): 0D -> get_costing, Sep -> raise, anything else falls through
costing_RO ==
    /\ pc = "RO"
    /\ IF ~hasattr("RO")
         THEN /\ pc' = "pump_RO"
              /\ UNCHANGED << costing, calls, err >>
       ELSE IF kwargs.RO_type = Absent
         THEN /\ raise("KeyError")
              /\ UNCHANGED << costing, calls >>
       ELSE IF kwargs.RO_type = RO_costed_type
         THEN /\ get_costing("RO", module, NoArg)
              /\ pc' = "pump_RO"
              /\ UNCHANGED err
       ELSE IF kwargs.RO_type = "Sep"
         THEN /\ raise("NotImplementedError")
              /\ UNCHANGED << costing, calls >>
       ELSE /\ pc' = "pump_RO"
            /\ UNCHANGED << costing, calls, err >>
    /\ UNCHANGED << fs, placeholder, system_costing, kwargs, module, printed,
                    ndisplay >>
    /\ UNCHANGED << pvars, script >>

\* if hasattr(m.fs, u): m.fs.u.get_costing(module=module, <arg>)
costing_unit(u, arg, next) ==
    /\ pc = u
    /\ IF hasattr(u)
         THEN get_costing(u, module, arg)
         ELSE UNCHANGED << costing, calls >>
    /\ pc' = next
    /\ UNCHANGED << fs, placeholder, system_costing, kwargs, module, err,
                    printed, ndisplay >>
    /\ UNCHANGED << pvars, script >>

costing_pump_RO == costing_unit("pump_RO", "High pressure", "pump_RO2")

costing_pump_RO2 == costing_unit("pump_RO2", "High pressure", "RO2")

costing_RO2 == costing_unit("RO2", NoArg, "stoich_softening_mixer_unit")

costing_stoich_softening_mixer_unit ==
    costing_unit("stoich_softening_mixer_unit", "lime_softening",
                 "ideal_naocl_mixer_unit")

\* as costing_ideal_naocl_mixer_unit, with the softening mixer's mixer_type
costing_ideal_naocl_mixer_unit_pasted ==
    costing_unit("ideal_naocl_mixer_unit", "lime_softening", "get_system_costing")

costing_ideal_naocl_mixer_unit ==
    costing_unit("ideal_naocl_mixer_unit", "naocl_mixer", "get_system_costing")

\* module.get_system_costing(m.fs)
get_system_costing ==
    /\ pc = "get_system_costing"
    /\ system_costing' = system_costing + 1
    /\ calls' = Append(calls, [fn |-> "get_system_costing", unit |-> "fs",
                               module |-> module, arg |-> NoArg])
    /\ pc' = "costed"
    /\ UNCHANGED << fs, placeholder, costing, kwargs, module, err, printed,
                    ndisplay >>
    /\ UNCHANGED << pvars, script >>

(***************************************************************************)
(* costing.py: display_costing                                             *)
(***************************************************************************)
\* the units display_costing attaches as zero-cost placeholders when missing,
\* in the order tested
Backfilled == << "pump_RO2", "NF", "RO2" >>

BackfilledNames == { Backfilled[i] : i \in 1..Len(Backfilled) }

\* Param(initialize=0)
placeholder_cost == 0

\* cost_dict: label, attribute read, and the units whose attribute is summed in
\* the numerator.  Entries that read m.fs.costing take their value from the
\* system aggregate (kind "aggregate", no unit read).
cost_dict ==
    << [label |-> "LCOW", kind |-> "aggregate", of |-> << >>],
       [label |-> "Total CAPEX", kind |-> "aggregate", of |-> << >>],
       [label |-> "Direct CAPEX", kind |-> "aggregate", of |-> << >>],
       [label |-> "Indirect CAPEX", kind |-> "aggregate", of |-> << >>],
       [label |-> "Total OPEX", kind |-> "aggregate", of |-> << >>],
       [label |-> "Maintenance/Labor/Chemical Costs", kind |-> "aggregate",
        of |-> << >>],
       [label |-> "Total Electricity Cost", kind |-> "operating_cost",
        of |-> << "pump_RO", "pump_RO2" >>],
       [label |-> "Stage 1 HP Pump Electricity Cost", kind |-> "operating_cost",
        of |-> << "pump_RO" >>],
       [label |-> "Stage 2 HP Pump Electricity Cost", kind |-> "operating_cost",
        of |-> << "pump_RO2" >>],
       [label |-> "Total Membrane Replacement Cost", kind |-> "operating_cost",
        of |-> << "NF", "RO", "RO2" >>],
       [label |-> "NF Membrane Replacement Cost", kind |-> "operating_cost",
        of |-> << "NF" >>],
       [label |-> "Stage 1 RO Membrane Replacement Cost",
        kind |-> "operating_cost", of |-> << "RO" >>],
       [label |-> "Stage 2 RO Membrane Replacement Cost",
        kind |-> "operating_cost", of |-> << "RO2" >>] >>

\* the units whose costing block cost_dict reads
cost_dict_units ==
    UNION { { cost_dict[i].of[j] : j \in 1..Len(cost_dict[i].of) }
            : i \in 1..Len(cost_dict) }

RECURSIVE SumCost(_, _)
\* sum of the operating costs of the units of sequence us, under costing c
SumCost(us, c) ==
    IF us = << >> THEN 0 ELSE c[Head(us)] + SumCost(Tail(us), c)

\* the line printed for one entry: the numerator of the printed ratio (the
\* denominator is always m.fs.annual_water_production)
cost_line(e, c) ==
    [label |-> e.label, kind |-> e.kind, of |-> e.of, num |-> SumCost(e.of, c)]

\* def display_costing(m, **kwargs): line 81 reads m.fs.costing_param, which
\* the costing run has created
display_costing ==
    /\ pc = "costed"
    /\ ndisplay < MaxDisplay
    /\ ndisplay' = ndisplay + 1
    /\ printed' = << >>
    /\ pc' = "backfill"
    /\ UNCHANGED << fs, placeholder, costing, system_costing, calls, kwargs,
                    module, err >>
    /\ UNCHANGED << pvars, script >>

\* as missing_units, with the NF placeholder forgotten
missing_units_without_NF == { u \in { "pump_RO2", "RO2" } : ~hasattr(u) }

\* the units display_costing attaches: those of Backfilled that m.fs lacks
missing_units == { u \in BackfilledNames : ~hasattr(u) }

\* lines 84-95: if not hasattr(m.fs, u): m.fs.u = Block(); u.costing = Block();
\* u.costing.operating_cost = Param(initialize=0)
display_backfill ==
    /\ pc = "backfill"
    /\ fs' = fs \cup missing_units
    /\ placeholder' = placeholder \cup missing_units
    /\ costing' = [u \in missing_units |-> placeholder_cost] @@ costing
    /\ pc' = "cost_dict"
    /\ UNCHANGED << system_costing, calls, kwargs, module, err, printed,
                    ndisplay >>
    /\ UNCHANGED << pvars, script >>

\* lines 99-122: build cost_dict (every unit read must be attached and have a
\* costing block, else AttributeError before anything is printed), print it
display_cost_dict ==
    /\ pc = "cost_dict"
    /\ IF cost_dict_units \subseteq (fs \cap DOMAIN costing)
         THEN /\ printed' = printed \o
                    [i \in 1..Len(cost_dict) |-> cost_line(cost_dict[i], costing)]
              /\ pc' = "tail"
              /\ UNCHANGED err
         ELSE /\ raise("AttributeError")
              /\ UNCHANGED printed
    /\ UNCHANGED << fs, placeholder, costing, system_costing, calls, kwargs,
                    module, ndisplay >>
    /\ UNCHANGED << pvars, script >>

\* lines 126-145: the per-unit lines, each group printed if hasattr(m.fs, unit)
tail_dict ==
    << [label |-> "RO Pump 1 specific Opex", kind |-> "operating_cost",
        of |-> << "pump_RO" >>],
       [label |-> "RO Pump 2 specific Opex", kind |-> "operating_cost",
        of |-> << "pump_RO2" >>],
       [label |-> "Lime Softening specific CAPEX", kind |-> "capital_cost",
        of |-> << "stoich_softening_mixer_unit" >>],
       [label |-> "Lime Softening specific OPEX", kind |-> "operating_cost",
        of |-> << "stoich_softening_mixer_unit" >>],
       [label |-> "Chlorination specific CAPEX", kind |-> "capital_cost",
        of |-> << "ideal_naocl_mixer_unit" >>],
       [label |-> "Chlorination specific OPEX", kind |-> "operating_cost",
        of |-> << "ideal_naocl_mixer_unit" >>] >>

\* the guard of a tail line: if hasattr(m.fs, unit)
tail_guard(u) == hasattr(u)

RECURSIVE tail_lines(_, _)
\* the tail lines from entry i on, given the lines printed so far; stops at the
\* first attached unit without a costing block
tail_lines(i, out) ==
    IF i > Len(tail_dict) THEN [out |-> out, err |-> "none"]
    ELSE LET e == tail_dict[i]
             u == e.of[1]
         IN  IF ~tail_guard(u) THEN tail_lines(i + 1, out)
             ELSE IF u \notin DOMAIN costing
               THEN [out |-> out, err |-> "AttributeError"]
             ELSE tail_lines(i + 1, Append(out,
                      [label |-> e.label, kind |-> e.kind, of |-> e.of,
                       num |-> IF e.kind = "operating_cost"
                                 THEN costing[u] ELSE 0]))

\* line 124: print(f'LCOW = $.../m3'), then lines 126-145
display_tail ==
    /\ pc = "tail"
    /\ LET r == tail_lines(1, Append(printed,
                    [label |-> "LCOW $", kind |-> "aggregate", of |-> << >>,
                     num |-> 0]))
       IN  /\ printed' = r.out
           /\ IF r.err = "none"
                THEN pc' = "costed" /\ UNCHANGED err
                ELSE raise(r.err)
    /\ UNCHANGED << fs, placeholder, costing, system_costing, calls, kwargs,
                    module, ndisplay >>
    /\ UNCHANGED << pvars, script >>

(***************************************************************************)
(* pretreatment.py: build_pretreatment_NF                                  *)
(***************************************************************************)
\* values the caller may pass as NF_type: the two recognized ones and others
NFTypeValues == { "ZO", "Sep", "zo", "0D", "" }

\* NF_base: 'ion' or 'salt'
NFBases == { "ion", "salt" }

\* the two ways the builder is entered: called on a prepared model, or through
\* the driver solve_build_pretreatment_NF
Entries == { "build_pretreatment_NF", "solve_build_pretreatment_NF" }

Port(u, p) == << u, p >>

Arc(name, source, destination) ==
    [name |-> name, src |-> source, dst |-> destination]

\* the declared arc of the given name
arc_named(name) == CHOOSE a \in { arcs[i] : i \in 1..Len(arcs) } : a.name = name

has(u) == u \in DOMAIN units

\* raise in the builder or the driver
praise(e) ==
    /\ ppc' = "error"
    /\ perr' = e

\* unit.initialize(optarg=optarg)
initialize(u) == events' = Append(events, [op |-> "initialize", target |-> u])

\* propagate_state(arc)
propagate_state(name) ==
    events' = Append(events, [op |-> "propagate_state", target |-> name])

\* build_pretreatment_NF(m, has_bypass, NF_type, NF_base) called on a model whose
\* property package is built; lines 36-38
build_pretreatment_NF(hb, t, b) ==
    /\ script = "pretreatment"
    /\ ppc = "start"
    /\ args' = [has_bypass |-> hb, NF_type |-> t, NF_base |-> b,
                entry |-> "build_pretreatment_NF"]
    /\ ppc' = "build_feed"
    /\ UNCHANGED << units, arcs, split_fraction, scaled, events, pretrt_port,
                    perr, solved >>
    /\ UNCHANGED << cvars, script >>

\* solve_build_pretreatment_NF(has_bypass, NF_type, NF_base): lines 116-119,
\* builds the model, the flowsheet and the property package, calls the builder
solve_build_pretreatment_NF(hb, t, b) ==
    /\ script = "pretreatment"
    /\ ppc = "start"
    /\ args' = [has_bypass |-> hb, NF_type |-> t, NF_base |-> b,
                entry |-> "solve_build_pretreatment_NF"]
    /\ ppc' = "build_feed"
    /\ UNCHANGED << units, arcs, split_fraction, scaled, events, pretrt_port,
                    perr, solved >>
    /\ UNCHANGED << cvars, script >>

\* line 41: feed_block.build_feed(m, base=NF_base)
pre_build_feed ==
    /\ ppc = "build_feed"
    /\ units' = ("feed" :> args.NF_base) @@ units
    /\ ppc' = "build_NF"
    /\ UNCHANGED << args, arcs, split_fraction, scaled, events, pretrt_port,
                    perr, solved >>
    /\ UNCHANGED << cvars, script >>

\* as pre_build_NF, with the else branch building the default variant
pre_build_NF_default ==
    /\ ppc = "build_NF"
    /\ IF args.NF_type = "Sep"
         THEN units' = ("NF" :> "Sep") @@ units
         ELSE units' = ("NF" :> "ZO") @@ units
    /\ ppc' = "build_aux"
    /\ UNCHANGED << args, arcs, split_fraction, scaled, events, pretrt_port,
                    perr, solved >>
    /\ UNCHANGED << cvars, script >>

\* lines 44-50: build the NF of the requested variant, or raise ValueError
pre_build_NF ==
    /\ ppc = "build_NF"
    /\ IF args.NF_type = "Sep"
         THEN /\ units' = ("NF" :> "Sep") @@ units
              /\ ppc' = "build_aux"
              /\ UNCHANGED perr
       ELSE IF args.NF_type = "ZO"
         THEN /\ units' = ("NF" :> "ZO") @@ units
              /\ ppc' = "build_aux"
              /\ UNCHANGED perr
       ELSE /\ praise("ValueError")
            /\ UNCHANGED units
    /\ UNCHANGED << args, arcs, split_fraction, scaled, events, pretrt_port,
                    solved >>
    /\ UNCHANGED << cvars, script >>

\* as pre_build_aux, with the auxiliary units built before has_bypass is tested
pre_build_aux_always ==
    /\ ppc = "build_aux"
    /\ units' = ("splitter" :> "Separator") @@ ("mixer" :> "Mixer") @@ units
    /\ ppc' = IF args.has_bypass THEN "connect" ELSE "nb_connect"
    /\ UNCHANGED << args, arcs, split_fraction, scaled, events, pretrt_port,
                    perr, solved >>
    /\ UNCHANGED << cvars, script >>

\* lines 52-61: if has_bypass, build the splitter and the mixer
pre_build_aux ==
    /\ ppc = "build_aux"
    /\ IF args.has_bypass
         THEN /\ units' = ("splitter" :> "Separator") @@ ("mixer" :> "Mixer")
                              @@ units
              /\ ppc' = "connect"
         ELSE /\ UNCHANGED units
              /\ ppc' = "nb_connect"
    /\ UNCHANGED << args, arcs, split_fraction, scaled, events, pretrt_port,
                    perr, solved >>
    /\ UNCHANGED << cvars, script >>

\* lines 64-67: the four arcs of the bypass network
pre_connect ==
    /\ ppc = "connect"
    /\ arcs' = arcs \o
         << Arc("s_pretrt_feed_splitter", Port("feed", "outlet"),
                Port("splitter", "inlet")),
            Arc("s_pretrt_splitter_mixer", Port("splitter", "bypass"),
                Port("mixer", "bypass")),
            Arc("s_pretrt_splitter_NF", Port("splitter", "pretreatment"),
                Port("NF", "inlet")),
            Arc("s_pretrt_NF_mixer", Port("NF", "permeate"),
                Port("mixer", "pretreatment")) >>
    /\ ppc' = "fix_split"
    /\ UNCHANGED << args, units, split_fraction, scaled, events, pretrt_port,
                    perr, solved >>
    /\ UNCHANGED << cvars, script >>

\* the value the bypass split fraction is fixed at, in tenths (0.1)
BypassSplitTenths == 1

\* as pre_fix_split, setting the value without fixing the variable
pre_fix_split_set_value ==
    /\ ppc = "fix_split"
    /\ split_fraction' = [fixed |-> FALSE, tenths |-> BypassSplitTenths]
    /\ ppc' = "scaling"
    /\ UNCHANGED << args, units, arcs, scaled, events, pretrt_port, perr,
                    solved >>
    /\ UNCHANGED << cvars, script >>

\* line 71: m.fs.splitter.split_fraction[0, 'bypass'].fix(0.1)
pre_fix_split ==
    /\ ppc = "fix_split"
    /\ split_fraction' = [fixed |-> TRUE, tenths |-> BypassSplitTenths]
    /\ ppc' = "scaling"
    /\ UNCHANGED << args, units, arcs, scaled, events, pretrt_port, perr,
                    solved >>
    /\ UNCHANGED << cvars, script >>

\* lines 74-75: calculate_scaling_factors(splitter), (mixer)
pre_scaling ==
    /\ ppc = "scaling"
    /\ scaled' = scaled \cup { "splitter", "mixer" }
    /\ ppc' = "init_feed"
    /\ UNCHANGED << args, units, arcs, split_fraction, events, pretrt_port,
                    perr, solved >>
    /\ UNCHANGED << cvars, script >>

\* one initialization statement of the builder: ev is the call it makes
pre_step(at, ev, next) ==
    /\ ppc = at
    /\ ev
    /\ ppc' = next
    /\ UNCHANGED << args, units, arcs, split_fraction, scaled, pretrt_port,
                    perr, solved >>
    /\ UNCHANGED << cvars, script >>

\* line 78
pre_init_feed == pre_step("init_feed", initialize("feed"), "prop_feed_splitter")

\* line 79
pre_prop_feed_splitter ==
    pre_step("prop_feed_splitter", propagate_state("s_pretrt_feed_splitter"),
             "init_splitter")

\* line 80
pre_init_splitter ==
    pre_step("init_splitter", initialize("splitter"), "prop_splitter_mixer")

\* line 81
pre_prop_splitter_mixer ==
    pre_step("prop_splitter_mixer", propagate_state("s_pretrt_splitter_mixer"),
             "prop_splitter_NF")

\* line 82
pre_prop_splitter_NF ==
    pre_step("prop_splitter_NF", propagate_state("s_pretrt_splitter_NF"),
             "init_NF")

\* if NF_type != 'Sep': m.fs.NF.initialize(optarg=optarg)
init_NF_unless_Sep ==
    IF args.NF_type # "Sep" THEN initialize("NF") ELSE UNCHANGED events

\* lines 83-84
pre_init_NF == pre_step("init_NF", init_NF_unless_Sep, "prop_NF_mixer")

\* line 85
pre_prop_NF_mixer ==
    pre_step("prop_NF_mixer", propagate_state("s_pretrt_NF_mixer"),
             "init_mixer")

\* line 86
pre_init_mixer == pre_step("init_mixer", initialize("mixer"), "ports")

\* as pre_ports, with the waste port taken from the permeate
pre_ports_waste_permeate ==
    /\ ppc = "ports"
    /\ pretrt_port' = ("out" :> Port("mixer", "outlet"))
                        @@ ("waste" :> Port("NF", "permeate"))
    /\ ppc' = "return"
    /\ UNCHANGED << args, units, arcs, split_fraction, scaled, events, perr,
                    solved >>
    /\ UNCHANGED << cvars, script >>

\* lines 89-90: pretrt_port['out'], pretrt_port['waste']
pre_ports ==
    /\ ppc = "ports"
    /\ pretrt_port' = ("out" :> Port("mixer", "outlet"))
                        @@ ("waste" :> Port("NF", "retentate"))
    /\ ppc' = "return"
    /\ UNCHANGED << args, units, arcs, split_fraction, scaled, events, perr,
                    solved >>
    /\ UNCHANGED << cvars, script >>

\* line 96: the one arc of the network without bypass
nb_connect ==
    /\ ppc = "nb_connect"
    /\ arcs' = Append(arcs, Arc("s_pretrt_feed_NF", Port("feed", "outlet"),
                                Port("NF", "inlet")))
    /\ ppc' = "nb_init_feed"
    /\ UNCHANGED << args, units, split_fraction, scaled, events, pretrt_port,
                    perr, solved >>
    /\ UNCHANGED << cvars, script >>

\* line 103
nb_init_feed == pre_step("nb_init_feed", initialize("feed"), "nb_prop_feed_NF")

\* line 104
nb_prop_feed_NF ==
    pre_step("nb_prop_feed_NF", propagate_state("s_pretrt_feed_NF"),
             "nb_init_NF")

\* lines 105-106
nb_init_NF == pre_step("nb_init_NF", init_NF_unless_Sep, "nb_ports")

\* lines 109-110
nb_ports ==
    /\ ppc = "nb_ports"
    /\ pretrt_port' = ("out" :> Port("NF", "permeate"))
                        @@ ("waste" :> Port("NF", "retentate"))
    /\ ppc' = "return"
    /\ UNCHANGED << args, units, arcs, split_fraction, scaled, events, perr,
                    solved >>
    /\ UNCHANGED << cvars, script >>

\* line 112: return pretrt_port, to the caller or to the driver (line 119)
pre_return ==
    /\ ppc = "return"
    /\ ppc' = IF args.entry = "solve_build_pretreatment_NF"
                THEN "expand_arcs" ELSE "returned"
    /\ UNCHANGED << args, units, arcs, split_fraction, scaled, events,
                    pretrt_port, perr, solved >>
    /\ UNCHANGED << cvars, script >>

(***************************************************************************)
(* pretreatment.py: the rest of the driver solve_build_pretreatment_NF     *)
(***************************************************************************)
\* line 121: TransformationFactory("network.expand_arcs").apply_to(m)
drv_expand_arcs ==
    /\ ppc = "expand_arcs"
    /\ ppc' = "check_dof"
    /\ UNCHANGED << args, units, arcs, split_fraction, scaled, events,
                    pretrt_port, perr, solved >>
    /\ UNCHANGED << cvars, script >>

\* the degrees of freedom left on the network: the feed, the NF and the mixer
\* are fully specified by construction, the splitter has its split fraction
degrees_of_freedom ==
    IF has("splitter") /\ ~split_fraction.fixed THEN 1 ELSE 0

\* line 122: check_dof(m) stops the run unless no degree of freedom is left
drv_check_dof ==
    /\ ppc = "check_dof"
    /\ IF degrees_of_freedom = 0
         THEN ppc' = "solve" /\ UNCHANGED perr
         ELSE praise("UnderSpecified")
    /\ UNCHANGED << args, units, arcs, split_fraction, scaled, events,
                    pretrt_port, solved >>
    /\ UNCHANGED << cvars, script >>

\* line 123: solve_with_user_scaling(m, tee=True, fail_flag=True); the solve
\* leaves fixed variables as they are
drv_solve ==
    /\ ppc = "solve"
    /\ solved' = TRUE
    /\ ppc' = "finished"
    /\ UNCHANGED << args, units, arcs, split_fraction, scaled, events,
                    pretrt_port, perr >>
    /\ UNCHANGED << cvars, script >>

(***************************************************************************)
(* A run executes one of the two scripts.  The costing script starts from  *)
(* a flowsheet with any subset of the reserved units attached and nothing  *)
(* costed; the pretreatment script starts from an empty flowsheet.         *)
(***************************************************************************)
Init ==
    /\ script \in Scripts
    /\ fs \in IF script = "costing" THEN SUBSET ReservedNames ELSE { {} }
    /\ placeholder = {}
    /\ costing = << >>
    /\ system_costing = 0
    /\ calls = << >>
    /\ kwargs = [NF_type |-> Absent, RO_type |-> Absent]
    /\ module = "financials"
    /\ pc = "start"
    /\ err = "none"
    /\ printed = << >>
    /\ ndisplay = 0
    /\ ppc = "start"
    /\ args = [has_bypass |-> TRUE, NF_type |-> "ZO", NF_base |-> "ion",
               entry |-> "build_pretreatment_NF"]
    /\ units = << >>
    /\ arcs = << >>
    /\ split_fraction = [fixed |-> FALSE, tenths |-> 0]
    /\ scaled = {}
    /\ events = << >>
    /\ pretrt_port = << >>
    /\ perr = "none"
    /\ solved = FALSE

Next ==
    \/ \E mod \in Modules, nf \in TypeValues, ro \in TypeValues :
            build_costing(mod, nf, ro)
    \/ costing_NF
    \/ costing_RO
    \/ costing_pump_RO
    \/ costing_pump_RO2
    \/ costing_RO2
    \/ costing_stoich_softening_mixer_unit
    \/ costing_ideal_naocl_mixer_unit
    \/ get_system_costing
    \/ display_costing
    \/ display_backfill
    \/ display_cost_dict
    \/ display_tail
    \/ \E hb \in BOOLEAN, t \in NFTypeValues, b \in NFBases :
            build_pretreatment_NF(hb, t, b)
    \/ \E hb \in BOOLEAN, t \in NFTypeValues, b \in NFBases :
            solve_build_pretreatment_NF(hb, t, b)
    \/ pre_build_feed
    \/ pre_build_NF
    \/ pre_build_aux
    \/ pre_connect
    \/ pre_fix_split
    \/ pre_scaling
    \/ pre_init_feed
    \/ pre_prop_feed_splitter
    \/ pre_init_splitter
    \/ pre_prop_splitter_mixer
    \/ pre_prop_splitter_NF
    \/ pre_init_NF
    \/ pre_prop_NF_mixer
    \/ pre_init_mixer
    \/ pre_ports
    \/ nb_connect
    \/ nb_init_feed
    \/ nb_prop_feed_NF
    \/ nb_init_NF
    \/ nb_ports
    \/ pre_return
    \/ drv_expand_arcs
    \/ drv_check_dof
    \/ drv_solve

Spec == Init /\ [][Next]_vars

(***************************************************************************)
(* Properties of build_costing.                                            *)
(***************************************************************************)
\* positions inside build_costing
BuildPcs ==
    { "NF", "RO", "pump_RO", "pump_RO2", "RO2", "stoich_softening_mixer_unit",
      "ideal_naocl_mixer_unit", "get_system_costing" }

\* build_costing has returned without raising
BuildReturned == pc \notin BuildPcs \cup { "start" } /\ (pc = "error" => ndisplay > 0)

\* build_costing has ended by raising
BuildRaised == pc = "error" /\ ndisplay = 0

\* the units attached before any display_costing call
Attached == fs \ placeholder

\* the keyword argument each reserved unit is to be costed with
ExpectedArg(u) ==
    CASE u \in { "pump_RO", "pump_RO2" } -> "High pressure"
      [] u = "stoich_softening_mixer_unit" -> "lime_softening"
      [] u = "ideal_naocl_mixer_unit" -> "naocl_mixer"
      [] OTHER -> NoArg

\* C1: in a run of build_costing that raises no error get_system_costing is
\* called exactly once and is the last call, after every get_costing; every
\* get_costing call (in any run) is on an attached reserved unit, at most once
\* per unit, with the shared module and the unit's pump_type / mixer_type.
C1_AggregatorOnceAndLast ==
    /\ BuildReturned =>
         /\ system_costing = 1
         /\ Len(calls) >= 1
         /\ calls[Len(calls)] = [fn |-> "get_system_costing", unit |-> "fs",
                                 module |-> module, arg |-> NoArg]
         /\ \A i \in 1..(Len(calls) - 1) : calls[i].fn = "get_costing"
    /\ \A i \in 1..Len(calls) :
         calls[i].fn = "get_costing" =>
            /\ calls[i].unit \in Attached \cap ReservedNames
            /\ calls[i].module = module
            /\ calls[i].arg = ExpectedArg(calls[i].unit)
            /\ \A j \in 1..Len(calls) : j # i => calls[j].unit # calls[i].unit

\* C1 witness: every reserved unit attached and costed, then the aggregator
C1_Witness ==
    /\ pc = "costed" /\ ndisplay = 0
    /\ fs = ReservedNames
    /\ Len(calls) = Len(Reserved) + 1
    /\ module = "other_module"

\* C2 as stated: a 'Sep' request for NF or RO (in a call that passes both
\* NF_type and RO_type) always ends in NotImplementedError and the aggregator
\* is never called, whatever units are attached.
C2_SepAlwaysRaises ==
    (/\ pc # "start"
     /\ kwargs.NF_type # Absent /\ kwargs.RO_type # Absent
     /\ (kwargs.NF_type = "Sep" \/ kwargs.RO_type = "Sep")) =>
        /\ system_costing = 0
        /\ pc \in BuildPcs \cup { "error" }
        /\ pc = "error" => err = "NotImplementedError"

\* C2 amended: when the unit 'Sep' is requested for is attached, build_costing
\* raises and never calls the aggregator: NotImplementedError at the NF branch
\* for NF; for RO, NotImplementedError at the RO branch unless the NF branch
\* already failed on a missing NF_type keyword.  With neither NF nor RO
\* attached no request makes build_costing raise.
C2_SepOnAttachedUnitRaises ==
    /\ (pc # "start" /\ "NF" \in Attached /\ kwargs.NF_type = "Sep") =>
          /\ system_costing = 0
          /\ pc \in { "NF", "error" }
          /\ pc = "error" => err = "NotImplementedError"
          /\ calls = << >>
    /\ (pc # "start" /\ "RO" \in Attached /\ kwargs.RO_type = "Sep") =>
          /\ system_costing = 0
          /\ pc \in { "NF", "RO", "error" }
          /\ pc = "error" =>
                err = IF "NF" \in Attached /\ kwargs.NF_type = Absent
                        THEN "KeyError" ELSE "NotImplementedError"
    /\ (Attached \cap { "NF", "RO" } = {}) => ~BuildRaised

\* C2 witness: NF costed, then the RO branch raises for 'Sep'
C2_Witness ==
    /\ pc = "error" /\ err = "NotImplementedError"
    /\ "RO" \in Attached /\ kwargs.RO_type = "Sep"
    /\ "NF" \in DOMAIN costing
    /\ system_costing = 0

\* C3 as stated: whenever get_system_costing is reached, every attached NF and
\* RO block has had get_costing invoked (no attached unit is skipped silently).
C3_NoSilentSkip ==
    (pc = "get_system_costing" \/ system_costing > 0) =>
        \A u \in Attached \cap { "NF", "RO" } : u \in DOMAIN costing

(***************************************************************************)
(* Properties of display_costing.                                          *)
(***************************************************************************)
\* the printed line of the given label
Line(label) == printed[CHOOSE i \in 1..Len(printed) : printed[i].label = label]

\* operating cost a unit contributes: zero when it was not attached
Contribution(u) == IF u \in Attached THEN costing[u] ELSE 0

\* the flowsheet a report is asked of in C8: pump_RO and RO attached and costed,
\* the system costed, and whichever of pump_RO2, RO2, NF is attached is costed
ReportReady ==
    /\ { "pump_RO", "RO" } \subseteq Attached
    /\ \A u \in Attached \cap cost_dict_units : u \in DOMAIN costing
    /\ system_costing > 0

\* C8: on such a flowsheet display_costing does not raise, prints every line of
\* cost_dict in order whatever subset of pump_RO2, RO2, NF is missing, and a
\* missing block enters the lines that read it with operating cost zero.
C8_ReportWithMissingUnits ==
    (ReportReady /\ ndisplay > 0) =>
        /\ err = "none"
        /\ pc # "error"
        /\ \A u \in placeholder : u \in DOMAIN costing /\ costing[u] = 0
        /\ pc \in { "tail", "costed" } =>
              /\ Len(printed) >= Len(cost_dict)
              /\ \A i \in 1..Len(cost_dict) : printed[i].label = cost_dict[i].label
              /\ Line("Total Electricity Cost").num =
                    costing["pump_RO"] + Contribution("pump_RO2")
              /\ Line("Stage 2 HP Pump Electricity Cost").num =
                    Contribution("pump_RO2")
              /\ Line("Total Membrane Replacement Cost").num =
                    Contribution("NF") + costing["RO"] + Contribution("RO2")
              /\ Line("NF Membrane Replacement Cost").num = Contribution("NF")
              /\ Line("Stage 2 RO Membrane Replacement Cost").num =
                    Contribution("RO2")

\* C8 witness: a report completed with all three optional blocks missing
C8_Witness ==
    /\ pc = "costed" /\ ndisplay = 1
    /\ ReportReady
    /\ placeholder = BackfilledNames
    /\ Len(printed) > Len(cost_dict)
    /\ Line("Total Membrane Replacement Cost").num = costing["RO"]

\* C10 as stated: display_costing (as build_costing) attaches nothing, so the
\* set of reserved names attached to the flowsheet never changes.
C10_ReportAttachesNothing == [][fs' = fs]_vars

(***************************************************************************)
(* Properties of build_pretreatment_NF.                                    *)
(***************************************************************************)
Recognized == { "Sep", "ZO" }

\* positions before the builder has decided on NF_type
BeforeNFPcs == { "start", "build_feed", "build_NF" }

\* positions from the return statement of the builder on
ReturnedPcs ==
    { "return", "returned", "expand_arcs", "check_dof", "solve", "finished" }

\* C4 as stated: the ValueError for an unrecognized NF_type is raised with
\* nothing built on the flowsheet.
C4_RaisesBeforeAnyConstruction ==
    perr = "ValueError" => (units = << >> /\ arcs = << >>)

\* C4 amended: an unrecognized NF_type always ends the builder in ValueError,
\* raised after the feed is built and before the NF unit, the splitter, the
\* mixer or any arc is; no unit is initialized and no variable fixed.
C4_RaisesAfterFeedOnly ==
    /\ (args.NF_type \notin Recognized /\ ppc \notin BeforeNFPcs) =>
          /\ ppc = "error" /\ perr = "ValueError"
          /\ DOMAIN units = { "feed" }
          /\ arcs = << >>
          /\ events = << >>
          /\ ~split_fraction.fixed
          /\ pretrt_port = << >>
    /\ perr = "ValueError" => args.NF_type \notin Recognized

\* C4 witness: the error raised for NF_type 'zo' without bypass
C4_Witness ==
    /\ perr = "ValueError"
    /\ args.NF_type = "zo" /\ ~args.has_bypass
    /\ has("feed")

\* C5 as stated: with bypass the returned mapping has exactly the entries
\* "product" (the mixer outlet) and "waste" (the NF retentate).
C5_PortsProductWaste ==
    (args.has_bypass /\ ppc \in ReturnedPcs) =>
        /\ DOMAIN pretrt_port = { "product", "waste" }
        /\ pretrt_port["product"] = Port("mixer", "outlet")
        /\ pretrt_port["waste"] = Port("NF", "retentate")

\* C5 amended: with bypass the returned mapping has exactly the entries 'out'
\* (the mixer outlet) and 'waste' (the NF retentate), for both NF variants.
C5_PortsOutWaste ==
    (args.has_bypass /\ ppc \in ReturnedPcs) =>
        /\ args.NF_type \in Recognized
        /\ DOMAIN pretrt_port = { "out", "waste" }
        /\ pretrt_port["out"] = Port("mixer", "outlet")
        /\ pretrt_port["waste"] = Port("NF", "retentate")

\* C5 witness: the builder has returned for the separator variant with bypass
C5_Witness ==
    /\ ppc = "returned"
    /\ args.has_bypass /\ args.NF_type = "Sep" /\ args.NF_base = "salt"
    /\ DOMAIN pretrt_port # {}

\* C6: without bypass the splitter and the mixer are never on the flowsheet,
\* the one arc declared goes from the feed outlet to the NF inlet, and the
\* product port returned is the NF permeate.
C6_NoBypassNoAuxiliaryUnits ==
    (~args.has_bypass) =>
        /\ ~has("splitter") /\ ~has("mixer")
        /\ scaled = {}
        /\ Len(arcs) <= 1
        /\ \A i \in 1..Len(arcs) :
              arcs[i].src = Port("feed", "outlet") /\ arcs[i].dst = Port("NF", "inlet")
        /\ ppc \in ReturnedPcs =>
              /\ Len(arcs) = 1
              /\ pretrt_port["out"] = Port("NF", "permeate")

\* C6 witness: the driver has finished a run without bypass
C6_Witness ==
    /\ ppc = "finished"
    /\ ~args.has_bypass /\ args.NF_type = "Sep"
    /\ Len(arcs) = 1

\* positions of a bypass run at which line 71 has been executed
AfterFixPcs ==
    { "scaling", "init_feed", "prop_feed_splitter", "init_splitter",
      "prop_splitter_mixer", "prop_splitter_NF", "init_NF", "prop_NF_mixer",
      "init_mixer", "ports" } \cup ReturnedPcs

\* C7: with bypass the split fraction is fixed at 0.1 from line 71 on, through
\* every later statement of the builder and of the driver: before any unit is
\* initialized, when the builder returns, at the degrees-of-freedom check
\* (which therefore passes) and after the solve.
C7_SplitFractionFixed ==
    args.has_bypass =>
        /\ ppc \in AfterFixPcs =>
              split_fraction = [fixed |-> TRUE, tenths |-> BypassSplitTenths]
        /\ events # << >> => split_fraction.fixed
        /\ ppc \in { "check_dof", "solve", "finished" } => degrees_of_freedom = 0
        /\ (ppc = "error" /\ args.NF_type \in Recognized) => FALSE

\* C7 witness: a bypass run solved with the split fraction fixed
C7_Witness ==
    /\ ppc = "finished" /\ solved
    /\ args.has_bypass /\ args.NF_type = "ZO"
    /\ split_fraction.fixed

\* the unit at the source of the declared arc of the given name
SourceUnit(name) == arc_named(name).src[1]

\* C9 as stated: for both variants, an arc is propagated only after its source
\* unit has been initialized, and a unit is initialized only after every arc
\* entering it has been propagated.
C9_SourceInitializedBeforePropagate ==
    \A i \in 1..Len(events) :
        /\ events[i].op = "propagate_state" =>
              \E j \in 1..(i - 1) :
                 events[j] = [op |-> "initialize",
                              target |-> SourceUnit(events[i].target)]
        /\ events[i].op = "initialize" =>
              \A k \in 1..Len(arcs) :
                 arcs[k].dst[1] = events[i].target =>
                    \E j \in 1..(i - 1) :
                       events[j] = [op |-> "propagate_state",
                                    target |-> arcs[k].name]

=============================================================================
